---- MODULE Spec2Model ----
(***************************************************************************)
(* Model of the cht.sh MCP stdio server (src/src/index.ts): the readline   *)
(* 'line' handler, handleRequest, fetchFromChtSh and the 'close' handler,  *)
(* run on the single-threaded event loop.                                  *)
(***************************************************************************)
EXTENDS Integers, Sequences, FiniteSets, TLC

VARIABLES input, task, mq, out, gets, inChunk, running

vars == <<input, task, mq, out, gets, inChunk, running>>

(* Bound of the model: number of input lines read in one run. *)
MaxLines == 2

-----------------------------------------------------------------------------
(* JSON values as they come out of JSON.parse: a type tag and the value's   *)
(* text (a number is kept by its decimal text), so that the number 0 and    *)
(* the string "0" are different values.                                     *)

Undef == [t |-> "undef", v |-> ""]
Null == [t |-> "null", v |-> ""]
Num(s) == [t |-> "num", v |-> s]
Str(s) == [t |-> "str", v |-> s]

(* JavaScript truthiness, as used by `||`, `!x` and `if (x)`. *)
Truthy(x) ==
  ~ \/ x.t \in {"undef", "null"}
    \/ (x.t = "num" /\ x.v = "0")
    \/ (x.t = "str" /\ x.v = "")

(* Template-literal conversion `${x}`. *)
ToText(x) ==
  IF x.t = "undef" THEN "undefined"
  ELSE IF x.t = "null" THEN "null"
  ELSE x.v

CHT_SH_BASE_URL == "https://cht.sh/"

(* The version string imported from package.json. *)
version == "package.json version"

Sentinel == Str("0")

-----------------------------------------------------------------------------
(* Requests.  params.arguments and params are records with a tag telling    *)
(* whether the member is present.                                           *)

NoArgs == [t |-> "undef", query |-> Undef, language |-> Undef,
           hasOptions |-> FALSE, options |-> <<>>]

Args(q, l, ho, o) == [t |-> "obj", query |-> q, language |-> l,
                      hasOptions |-> ho, options |-> o]

NoParams == [t |-> "undef", name |-> Undef, arguments |-> NoArgs]
NullParams == [t |-> "null", name |-> Undef, arguments |-> NoArgs]
Params(n, a) == [t |-> "obj", name |-> n, arguments |-> a]

(* A line of input: parse tells what JSON.parse does with it. *)
Raw(p) == [parse |-> p, jsonrpc |-> Undef, id |-> Undef, method |-> Undef,
           params |-> NoParams]

Obj(j, i, m, p) == [parse |-> "obj", jsonrpc |-> j, id |-> i, method |-> m,
                    params |-> p]

-----------------------------------------------------------------------------
(* Responses (MCPResponse).  hasResult / hasError tell which of the members *)
(* `result` and `error` the object literal carries; a message is the        *)
(* sequence of the parts its template literal concatenates.                 *)

NoResult == [tag |-> "none", protocolVersion |-> "", capabilities |-> {},
             serverName |-> "", serverVersion |-> "", tools |-> <<>>,
             status |-> "",
             timestamp |-> 0, content |-> <<>>]

ResultResponse(id, res) ==
  [jsonrpc |-> "2.0", id |-> id, hasResult |-> TRUE, result |-> res,
   hasError |-> FALSE, code |-> 0, message |-> <<>>,
   hasData |-> FALSE, data |-> <<>>]

(* Variant: the error literal also carries a result member. *)
ErrorResponseWithResult(id, code, message) ==
  [jsonrpc |-> "2.0", id |-> id, hasResult |-> TRUE, result |-> NoResult,
   hasError |-> TRUE, code |-> code, message |-> message,
   hasData |-> FALSE, data |-> <<>>]

ErrorResponse(id, code, message) ==
  [jsonrpc |-> "2.0", id |-> id, hasResult |-> FALSE, result |-> NoResult,
   hasError |-> TRUE, code |-> code, message |-> message,
   hasData |-> FALSE, data |-> <<>>]

ErrorDataResponse(id, code, message, data) ==
  [jsonrpc |-> "2.0", id |-> id, hasResult |-> FALSE, result |-> NoResult,
   hasError |-> TRUE, code |-> code, message |-> message,
   hasData |-> TRUE, data |-> data]

(* Placeholder held by a handler that has no response object (yet). *)
NoResponse ==
  [jsonrpc |-> "", id |-> Undef, hasResult |-> FALSE, result |-> NoResult,
   hasError |-> FALSE, code |-> 0, message |-> <<>>,
   hasData |-> FALSE, data |-> <<>>]

chtShTool == [name |-> "cht_sh",
              properties |-> {"language", "query", "options"},
              required |-> <<"query">>]

-----------------------------------------------------------------------------
(* fetchFromChtSh: the URL it builds, as the sequence of concatenated parts *)

RECURSIVE JoinAmp(_)
JoinAmp(options) ==
  IF Len(options) = 0 THEN <<>>
  ELSE IF Len(options) = 1 THEN <<options[1]>>
  ELSE <<options[1], "&">> \o JoinAmp(Tail(options))

(* Variant: the language segment is added even when no language is given. *)
FetchUrlAlwaysLanguage(query, language, options) ==
  <<CHT_SH_BASE_URL>>
    \o <<ToText(language), "/">>
    \o <<ToText(query)>>
    \o (IF Len(options) > 0 THEN <<"?">> \o JoinAmp(options) ELSE <<>>)

FetchUrl(query, language, options) ==
  <<CHT_SH_BASE_URL>>
    \o (IF Truthy(language) THEN <<ToText(language), "/">> ELSE <<>>)
    \o <<ToText(query)>>
    \o (IF Len(options) > 0 THEN <<"?">> \o JoinAmp(options) ELSE <<>>)

(* The options argument of the call: `options || []` (line 200). *)
OptionsOrEmpty(arguments) ==
  IF arguments.hasOptions THEN arguments.options ELSE <<>>

(* What the awaited axios.get can do: resolve with a body, reject with an   *)
(* axios error, or reject with some other Error.                            *)
FetchOutcomes == {"ok", "axiosError", "otherError"}

FetchText == "map docs"
FetchErrorMessage == "Network Error"

(* The value or exception fetchFromChtSh settles with (lines 62-68). *)
FetchThrown(outcome) ==
  IF outcome = "axiosError"
  THEN <<"Failed to fetch from cht.sh: ", FetchErrorMessage>>
  ELSE <<FetchErrorMessage>>

-----------------------------------------------------------------------------
(* handleRequest *)

(* Variant: the id is copied without a default. *)
ResponseIdNoDefault(request) == request.id

ResponseId(request) == IF Truthy(request.id) THEN request.id ELSE Sentinel

(* The catch block of the callTool branch (lines 215-225). *)
CallToolCatch(request, message) ==
  ErrorResponse(ResponseId(request), -32000, message)

Return(resp) == [tag |-> "return", resp |-> resp]
ReturnNull == [tag |-> "null", resp |-> NoResponse]
AwaitFetch == [tag |-> "fetch", resp |-> NoResponse]

(* Variant: missing params are reported as invalid params. *)
MissingParametersAsInvalidParams(request) ==
  ErrorResponse(ResponseId(request), -32602, <<"Missing parameters">>)

MissingParameters(request) ==
  CallToolCatch(request, <<"Missing parameters">>)

(* Variant: the unknown tool is reported as invalid params. *)
ToolNotFoundAsInvalidParams(request) ==
  ErrorResponse(ResponseId(request), -32602,
                <<"Tool not found: ", ToText(request.params.name)>>)

ToolNotFound(request) ==
  ErrorResponse(ResponseId(request), -32601,
                <<"Tool not found: ", ToText(request.params.name)>>)

(* Destructuring an undefined params.arguments throws a TypeError, which    *)
(* the catch block of the branch answers.                                   *)
DestructureThrows(request) ==
  CallToolCatch(request,
    <<"Cannot destructure property 'language' of 'params.arguments'">>)

QueryRequired(request) ==
  ErrorResponse(ResponseId(request), -32602,
                <<"Invalid params: query is required">>)

(* Variant: the query is checked before the tool name. *)
CallToolQueryFirst(request) ==
  LET params == request.params IN
  IF params.t # "obj" THEN Return(MissingParameters(request))
  ELSE IF params.arguments.t # "obj" THEN Return(DestructureThrows(request))
  ELSE IF ~Truthy(params.arguments.query) THEN Return(QueryRequired(request))
  ELSE IF params.name # Str("cht_sh") THEN Return(ToolNotFound(request))
  ELSE AwaitFetch

(* Variant: the branch fetches without having checked the query. *)
CallToolUnchecked(request) ==
  LET params == request.params IN
  IF params.t # "obj" THEN Return(MissingParameters(request))
  ELSE IF params.name # Str("cht_sh") THEN Return(ToolNotFound(request))
  ELSE IF params.arguments.t # "obj" THEN Return(DestructureThrows(request))
  ELSE AwaitFetch

(* The callTool branch up to its await (lines 155-201). *)
CallTool(request) ==
  LET params == request.params IN
  IF params.t # "obj" THEN Return(MissingParameters(request))
  ELSE IF params.name # Str("cht_sh") THEN Return(ToolNotFound(request))
  ELSE IF params.arguments.t # "obj" THEN Return(DestructureThrows(request))
  ELSE IF ~Truthy(params.arguments.query) THEN Return(QueryRequired(request))
  ELSE AwaitFetch

(* Variant: the protocol version string of another edition. *)
InitializeOtherEdition(request) ==
  Return(ResultResponse(ResponseId(request),
           [NoResult EXCEPT !.tag = "initialize",
                            !.protocolVersion = "2024-11-05",
                            !.serverName = "CheatSheet",
                            !.serverVersion = version]))

Initialize(request) ==
  Return(ResultResponse(ResponseId(request),
           [NoResult EXCEPT !.tag = "initialize",
                            !.protocolVersion = "2024-03-26",
                            !.serverName = "CheatSheet",
                            !.serverVersion = version]))

(* Variant: the notification is acknowledged with an empty result. *)
InitializedAcknowledged(request) ==
  Return(ResultResponse(ResponseId(request), NoResult))

Initialized(request) == ReturnNull

ToolsList(request) ==
  Return(ResultResponse(ResponseId(request),
           [NoResult EXCEPT !.tag = "tools", !.tools = <<chtShTool>>]))

(* Variant: the result carries the timestamp only. *)
PingWithoutStatus(request, ts) ==
  Return(ResultResponse(ResponseId(request),
           [NoResult EXCEPT !.tag = "ping", !.timestamp = ts]))

Ping(request, ts) ==
  Return(ResultResponse(ResponseId(request),
           [NoResult EXCEPT !.tag = "ping", !.status = "ok",
                            !.timestamp = ts]))

MethodNotFound(request) ==
  Return(ErrorResponse(ResponseId(request), -32601,
                       <<"Method not found: ", ToText(request.method)>>))

(* handleRequest run from its call to its first await or its return; ts is  *)
(* the value of Date.now().                                                 *)
handleRequest(request, ts) ==
  IF request.method = Str("initialize") THEN Initialize(request)
  ELSE IF request.method = Str("initialized") THEN Initialized(request)
  ELSE IF request.method = Str("tools/list") THEN ToolsList(request)
  ELSE IF request.method = Str("ping") THEN Ping(request, ts)
  ELSE IF request.method = Str("callTool") THEN CallTool(request)
  ELSE MethodNotFound(request)

(* handleRequest resumed when the fetch settles (lines 203-225). *)
CallToolSettled(request, outcome) ==
  IF outcome = "ok"
  THEN ResultResponse(ResponseId(request),
         [NoResult EXCEPT !.tag = "content",
                          !.content = <<[type |-> "text", text |-> FetchText]>>])
  ELSE CallToolCatch(request, FetchThrown(outcome))

-----------------------------------------------------------------------------
(* The 'line' handler (rl.on('line'), lines 244-303), run from the event to *)
(* its first suspension.  It yields the responses it wrote to stdout, the   *)
(* place it stopped at, the response it holds, the number of handleRequest  *)
(* calls and whether the fetcher was invoked.                               *)

Step(written, pc, hasResp, resp, calls, fetch) ==
  [written |-> written, pc |-> pc, hasResp |-> hasResp, resp |-> resp,
   calls |-> calls, fetch |-> fetch]

ParseThrows(line) == line.parse \in {"empty", "garbage"}

(* Variant: the parse failure is reported as an invalid request. *)
ParseErrorAsInvalidRequest ==
  ErrorResponse(Str("0"), -32600, <<"Parse error: Invalid JSON">>)

ParseErrorResponse ==
  ErrorResponse(Str("0"), -32700, <<"Parse error: Invalid JSON">>)

InvalidRequestResponse(request) ==
  ErrorResponse(IF Truthy(request.id) THEN request.id ELSE Str("0"), -32600,
                <<"Invalid Request: Not a valid JSON-RPC 2.0 request">>)

InternalErrorResponse(data) ==
  ErrorDataResponse(Str("0"), -32603, <<"Internal error">>, data)

InvalidEnvelope(request) ==
  request.jsonrpc # Str("2.0") \/ ~Truthy(request.method)

LineHandler(line, ts) ==
  IF ParseThrows(line)
  THEN Step(<<ParseErrorResponse>>, "done", FALSE, NoResponse, 0, FALSE)
  ELSE IF line.parse = "null"
  THEN (* request.jsonrpc on null throws a TypeError: the outer catch *)
       Step(<<InternalErrorResponse(<<"Cannot read properties of null">>)>>,
            "done", FALSE, NoResponse, 0, FALSE)
  ELSE IF InvalidEnvelope(line)
  THEN Step(<<InvalidRequestResponse(line)>>, "done", FALSE, NoResponse,
            0, FALSE)
  ELSE LET r == handleRequest(line, ts) IN
       IF r.tag = "fetch"
       THEN Step(<<>>, "fetch", FALSE, NoResponse, 1, TRUE)
       ELSE Step(<<>>, "await", r.tag = "return", r.resp, 1, FALSE)

(* Variant: only results are written, errors are dropped. *)
ResumeWritesResultsOnly(t) ==
  IF t.hasResp /\ t.resp.hasResult THEN <<t.resp>> ELSE <<>>

(* Variant: the outer catch answers again after the response was written. *)
ResumeWritesThenCatch(t) ==
  IF t.hasResp
  THEN <<t.resp, InternalErrorResponse(<<"Unknown error">>)>>
  ELSE <<>>

(* The handler resumed after `await handleRequest(request)` (lines 283-289) *)
ResumeWrites(t) == IF t.hasResp THEN <<t.resp>> ELSE <<>>

-----------------------------------------------------------------------------
(* Inputs *)

Ids == {Undef, Null, Num("0"), Num("7"), Str(""), Str("a")}

FewIds == {Undef, Num("0"), Num("7")}

Clock == {1, 2}

UnparseableLines == {Raw("empty"), Raw("garbage")}

NonObjectLines == {Raw("null"), Raw("prim"), Raw("array")}

InvalidEnvelopeLines ==
  {Obj(Undef, Num("7"), Str("ping"), NoParams)}
  \cup {Obj(Str("1.0"), i, Str("initialized"), NoParams) : i \in FewIds}
  \cup {Obj(Str("2.0"), i, Undef, NoParams) : i \in FewIds}
  \cup {Obj(Str("2.0"), Num("7"), Str(""), NoParams),
        Obj(Str("1.0"), Num("7"), Str("callTool"),
            Params(Str("cht_sh"), Args(Str("map"), Undef, FALSE, <<>>)))}

SimpleLines ==
  {Obj(Str("2.0"), i, Str(m), NoParams) :
     i \in {Undef, Num("7")},
     m \in {"initialize", "initialized", "tools/list", "ping",
            "frobnicate"}}
  \cup {Obj(Str("2.0"), i, Str("ping"), NoParams) : i \in Ids}
  \cup {Obj(Str("2.0"), Num("0"), Str("tools/list"), NoParams),
        Obj(Str("2.0"), Num("7"), Str("Ping"), NoParams),
        Obj(Str("2.0"), Num("0"), Str("frobnicate"), NoParams),
        Obj(Str("2.0"), Num("7"), Str("initialize"),
            Params(Str("client"), NoArgs))}

ArgsSet ==
  {NoArgs,
   Args(Undef, Undef, FALSE, <<>>),
   Args(Str(""), Str("python"), FALSE, <<>>),
   Args(Str("map"), Undef, FALSE, <<>>),
   Args(Str("map"), Str("python"), TRUE, <<"T", "q">>)}

FewArgs ==
  {NoArgs, Args(Str(""), Str("python"), FALSE, <<>>),
   Args(Str("map"), Undef, FALSE, <<>>)}

ParamsSet ==
  {NoParams, NullParams}
  \cup {Params(Undef, NoArgs)}
  \cup {Params(Str("other"), a) : a \in FewArgs}
  \cup {Params(Str("cht_sh"), a) : a \in ArgsSet}

CallToolLines ==
  {Obj(Str("2.0"), Num("7"), Str("callTool"), p) : p \in ParamsSet}
  \cup {Obj(Str("2.0"), i, Str("callTool"), p) :
          i \in {Undef, Num("0")},
          p \in {NoParams, Params(Str("other"), NoArgs),
                 Params(Str("cht_sh"), Args(Str("map"), Undef, FALSE, <<>>))}}

Lines ==
  UnparseableLines \cup NonObjectLines \cup InvalidEnvelopeLines
    \cup SimpleLines \cup CallToolLines

-----------------------------------------------------------------------------
(* The event loop *)

Init ==
  /\ input = <<>>
  /\ task = <<>>
  /\ mq = <<>>
  /\ out = <<>>
  /\ gets = <<>>
  /\ inChunk = FALSE
  /\ running = TRUE

(* Variant: tools/list is refused until an initialize request was seen. *)
ReadLineRequiresInitialize(S) ==
  /\ running
  /\ Len(input) < MaxLines
  /\ inChunk \/ mq = <<>>
  /\ \E line \in S, ts \in Clock :
       LET i == Len(input) + 1
           fresh == LineHandler(line, ts)
           s == IF /\ fresh.pc = "await"
                   /\ line.method = Str("tools/list")
                   /\ \A k \in 1..Len(input) :
                        input[k].method # Str("initialize")
                THEN Step(<<>>, "await", TRUE,
                          ErrorResponse(ResponseId(line), -32002,
                                        <<"Server not initialized">>),
                          1, FALSE)
                ELSE fresh
           a == line.params.arguments
       IN /\ input' = Append(input, line)
          /\ task' = Append(task, [pc |-> s.pc, hasResp |-> s.hasResp,
                                   resp |-> s.resp, calls |-> s.calls,
                                   outcome |-> "none"])
          /\ out' = out \o [k \in 1..Len(s.written) |->
                              [line |-> i, resp |-> s.written[k]]]
          /\ mq' = IF s.pc = "await" THEN Append(mq, i) ELSE mq
          /\ gets' = IF s.fetch
                     THEN Append(gets,
                            [line |-> i, query |-> a.query,
                             language |-> a.language,
                             options |-> OptionsOrEmpty(a),
                             url |-> FetchUrl(a.query, a.language,
                                              OptionsOrEmpty(a))])
                     ELSE gets
  /\ inChunk' = TRUE
  /\ UNCHANGED running

(* Variant: an exception reaching the outer catch ends the process. *)
ReadLineFatalCatch(S) ==
  /\ running
  /\ Len(input) < MaxLines
  /\ inChunk \/ mq = <<>>
  /\ \E line \in S, ts \in Clock :
       LET i == Len(input) + 1
           s == LineHandler(line, ts)
           a == line.params.arguments
       IN /\ input' = Append(input, line)
          /\ task' = Append(task, [pc |-> s.pc, hasResp |-> s.hasResp,
                                   resp |-> s.resp, calls |-> s.calls,
                                   outcome |-> "none"])
          /\ out' = out \o [k \in 1..Len(s.written) |->
                              [line |-> i, resp |-> s.written[k]]]
          /\ running' = (line.parse # "null")
          /\ mq' = IF s.pc = "await" THEN Append(mq, i) ELSE mq
          /\ gets' = IF s.fetch
                     THEN Append(gets,
                            [line |-> i, query |-> a.query,
                             language |-> a.language,
                             options |-> OptionsOrEmpty(a),
                             url |-> FetchUrl(a.query, a.language,
                                              OptionsOrEmpty(a))])
                     ELSE gets
  /\ inChunk' = TRUE

(* A 'line' event.  readline emits the lines of one chunk back to back, so  *)
(* a line can arrive while the continuations of earlier lines of the same   *)
(* chunk are still queued; a new chunk is a new turn of the event loop and  *)
(* finds the microtask queue empty.                                         *)
ReadLineFrom(S) ==
  /\ running
  /\ Len(input) < MaxLines
  /\ inChunk \/ mq = <<>>
  /\ \E line \in S, ts \in Clock :
       LET i == Len(input) + 1
           s == LineHandler(line, ts)
           a == line.params.arguments
       IN /\ input' = Append(input, line)
          /\ task' = Append(task, [pc |-> s.pc, hasResp |-> s.hasResp,
                                   resp |-> s.resp, calls |-> s.calls,
                                   outcome |-> "none"])
          /\ out' = out \o [k \in 1..Len(s.written) |->
                              [line |-> i, resp |-> s.written[k]]]
          /\ mq' = IF s.pc = "await" THEN Append(mq, i) ELSE mq
          /\ gets' = IF s.fetch
                     THEN Append(gets,
                            [line |-> i, query |-> a.query,
                             language |-> a.language,
                             options |-> OptionsOrEmpty(a),
                             url |-> FetchUrl(a.query, a.language,
                                              OptionsOrEmpty(a))])
                     ELSE gets
  /\ inChunk' = TRUE
  /\ UNCHANGED running

ReadLine == ReadLineFrom(Lines)

(* The continuation of the oldest suspended handler whose awaited promise   *)
(* has settled: it writes the response, if there is one.                    *)
Resume ==
  /\ running
  /\ mq # <<>>
  /\ LET i == Head(mq)
         w == ResumeWrites(task[i])
     IN /\ out' = out \o [k \in 1..Len(w) |-> [line |-> i, resp |-> w[k]]]
        /\ task' = [task EXCEPT ![i].pc = "done"]
  /\ mq' = Tail(mq)
  /\ inChunk' = FALSE
  /\ UNCHANGED <<input, gets, running>>

(* The outbound GET of line i settles: fetchFromChtSh and handleRequest run *)
(* on and the handler's awaited promise resolves with the response.         *)
(* Variant: the response is built from a request kept in a shared variable, *)
(* which holds the line read last.                                          *)
FetchSettleSharedRequest(i) ==
  /\ running
  /\ mq = <<>>
  /\ i \in 1..Len(task)
  /\ task[i].pc = "fetch"
  /\ \E outcome \in FetchOutcomes :
       task' = [task EXCEPT ![i] =
                  [pc |-> "await", hasResp |-> TRUE,
                   resp |-> CallToolSettled(input[Len(input)], outcome),
                   calls |-> @.calls, outcome |-> outcome]]
  /\ mq' = Append(mq, i)
  /\ inChunk' = FALSE
  /\ UNCHANGED <<input, out, gets, running>>

(* Variant: fetches settle in the order in which they were issued. *)
FetchSettleOldestFirst(i) ==
  /\ running
  /\ mq = <<>>
  /\ i \in 1..Len(task)
  /\ task[i].pc = "fetch"
  /\ \A k \in 1..(i - 1) : task[k].pc # "fetch"
  /\ \E outcome \in FetchOutcomes :
       task' = [task EXCEPT ![i] =
                  [pc |-> "await", hasResp |-> TRUE,
                   resp |-> CallToolSettled(input[i], outcome),
                   calls |-> @.calls, outcome |-> outcome]]
  /\ mq' = Append(mq, i)
  /\ inChunk' = FALSE
  /\ UNCHANGED <<input, out, gets, running>>

FetchSettleLine(i) ==
  /\ running
  /\ mq = <<>>
  /\ i \in 1..Len(task)
  /\ task[i].pc = "fetch"
  /\ \E outcome \in FetchOutcomes :
       task' = [task EXCEPT ![i] =
                  [pc |-> "await", hasResp |-> TRUE,
                   resp |-> CallToolSettled(input[i], outcome),
                   calls |-> @.calls, outcome |-> outcome]]
  /\ mq' = Append(mq, i)
  /\ inChunk' = FALSE
  /\ UNCHANGED <<input, out, gets, running>>

FetchSettle == \E i \in 1..MaxLines : FetchSettleLine(i)

(* rl.on('close'): process.exit(0) (lines 306-309). *)
Close ==
  /\ running
  /\ mq = <<>>
  /\ running' = FALSE
  /\ inChunk' = FALSE
  /\ UNCHANGED <<input, task, mq, out, gets>>

Next == ReadLine \/ Resume \/ FetchSettle \/ Close

Spec == Init /\ [][Next]_vars

(* The server with its input stream kept open and every fetch settling in   *)
(* the end: the event loop runs every queued continuation.                  *)
LiveLines ==
  {Raw("empty"), Raw("null"),
   Obj(Str("1.0"), Num("7"), Str("initialized"), NoParams),
   Obj(Str("2.0"), Num("7"), Str("initialized"), NoParams),
   Obj(Str("2.0"), Undef, Str("ping"), NoParams),
   Obj(Str("2.0"), Num("7"), Str("tools/list"), NoParams),
   Obj(Str("2.0"), Num("7"), Str("frobnicate"), NoParams),
   Obj(Str("2.0"), Num("7"), Str("callTool"), NoParams),
   Obj(Str("2.0"), Num("7"), Str("callTool"),
       Params(Str("cht_sh"), Args(Str(""), Str("python"), FALSE, <<>>))),
   Obj(Str("2.0"), Num("7"), Str("callTool"),
       Params(Str("cht_sh"), Args(Str("map"), Undef, FALSE, <<>>))),
   Obj(Str("2.0"), Undef, Str("callTool"),
       Params(Str("cht_sh"), Args(Str("map"), Undef, FALSE, <<>>)))}

LiveReadLine == ReadLineFrom(LiveLines)

LiveNext == LiveReadLine \/ Resume \/ FetchSettle

LiveSpec ==
  /\ Init
  /\ [][LiveNext]_vars
  /\ WF_vars(Resume)
  /\ \A i \in 1..MaxLines : WF_vars(FetchSettleLine(i))

(* The fetcher on its own: fetchFromChtSh called with any query, optional   *)
(* language and option sequence; each call records the GET it issues.       *)
MaxFetches == 2
MaxOptions == 2

Queries == {"map", "a b?c&d"}

Languages == {Undef, Str(""), Str("python")}

OptionTokens == {"T", "q=1"}

OptionSeqs ==
  UNION {[1..n -> OptionTokens] : n \in 0..MaxOptions}

fetchFromChtSh ==
  /\ Len(gets) < MaxFetches
  /\ \E query \in Queries, language \in Languages, options \in OptionSeqs :
       gets' = Append(gets,
                 [line |-> 0, query |-> Str(query), language |-> language,
                  options |-> options,
                  url |-> FetchUrl(Str(query), language, options)])
  /\ UNCHANGED <<input, task, mq, out, inChunk, running>>

UrlNext == fetchFromChtSh

UrlSpec == Init /\ [][UrlNext]_vars

-----------------------------------------------------------------------------
(* Observations used by the properties *)

LineIds == 1..Len(input)

(* The responses written for line i, in the order written. *)
Written(i) == SelectSeq(out, LAMBDA e : e.line = i)

NumWritten(i) == Len(Written(i))

(* The outbound GETs made for line i. *)
NumGets(i) == Len(SelectSeq(gets, LAMBDA g : g.line = i))

TypeOK ==
  /\ Len(task) = Len(input)
  /\ \A i \in LineIds : task[i].pc \in {"done", "await", "fetch"}
  /\ \A k \in 1..Len(mq) : mq[k] \in LineIds /\ task[mq[k]].pc = "await"

-----------------------------------------------------------------------------
(* Properties *)

(* A line that parsed to an object with the version marker and a non-empty  *)
(* method name.                                                             *)
ValidEnvelope(l) ==
  /\ l.parse = "obj"
  /\ l.jsonrpc = [t |-> "str", v |-> "2.0"]
  /\ l.method.t = "str" /\ l.method.v # ""

HasMethod(l, m) == ValidEnvelope(l) /\ l.method.v = m

(* C1: a line that JSON.parse rejects (the empty line included) gets        *)
(* exactly one response, an error -32700 under the sentinel id "0", and     *)
(* neither handleRequest nor the fetcher runs for it.                       *)
C1_ParseErrorAnswered ==
  \A i \in LineIds :
    input[i].parse \in {"empty", "garbage"} =>
      /\ NumWritten(i) = 1
      /\ LET r == Written(i)[1].resp
         IN /\ r.hasError /\ ~r.hasResult
            /\ r.code = -32700
            /\ r.id = [t |-> "str", v |-> "0"]
      /\ task[i].calls = 0
      /\ NumGets(i) = 0

(* C1 witness: an empty line was answered while an earlier request was      *)
(* still waiting for its fetch.                                             *)
C1_Witness ==
  \E i, j \in LineIds :
    /\ i < j
    /\ task[i].pc = "fetch"
    /\ input[j].parse = "empty"
    /\ NumWritten(j) = 1

(* C3: a valid envelope whose method is "initialized" never has a line      *)
(* written for it, with or without an id.                                   *)
C3_InitializedSilent ==
  \A i \in LineIds :
    HasMethod(input[i], "initialized") => NumWritten(i) = 0

(* C3 witness: an "initialized" request carrying an id was handled to the   *)
(* end between two lines that were answered.                                *)
C3_Witness ==
  \E i \in LineIds :
    /\ HasMethod(input[i], "initialized")
    /\ input[i].id.t = "num"
    /\ task[i].pc = "done" /\ task[i].calls = 1
    /\ \E j \in LineIds : j < i /\ NumWritten(j) = 1

(* C4: no input line ever has more than one response written for it.        *)
C4_AtMostOneResponse ==
  \A i \in LineIds : NumWritten(i) <= 1

(* C4 witness: a line answered by the outer catch and a callTool line whose *)
(* fetch settled have both been answered.                                   *)
C4_Witness ==
  \E i, j \in LineIds :
    /\ input[i].parse = "null" /\ NumWritten(i) = 1
    /\ task[j].outcome # "none" /\ task[j].pc = "done" /\ NumWritten(j) = 1

(* C5: every response written carries jsonrpc "2.0" and exactly one of      *)
(* result and error.                                                        *)
C5_ResultXorError ==
  \A k \in 1..Len(out) :
    LET r == out[k].resp
    IN /\ r.jsonrpc = "2.0"
       /\ r.hasResult # r.hasError
       /\ r.hasResult => r.result.tag # "none"
       /\ r.hasError => r.code < 0 /\ r.message # <<>>

(* C5 witness: a result and an error have both been written.                *)
C5_Witness ==
  \E k, m \in 1..Len(out) : out[k].resp.hasResult /\ out[m].resp.hasError

(* An id that is a string or a number. *)
HasId(l) == l.id.t \in {"num", "str"}

SentinelId == [t |-> "str", v |-> "0"]

(* C2 (as claimed): an object whose jsonrpc is not "2.0" or whose method is *)
(* missing or empty gets exactly one error -32600, under the request's id   *)
(* when it has one and under the sentinel "0" otherwise, and is never       *)
(* dispatched to handleRequest.                                             *)
C2_InvalidRequestEchoesId ==
  \A i \in LineIds :
    (/\ input[i].parse = "obj"
     /\ \/ input[i].jsonrpc # [t |-> "str", v |-> "2.0"]
        \/ input[i].method.t = "undef"
        \/ input[i].method = [t |-> "str", v |-> ""]) =>
      /\ NumWritten(i) = 1
      /\ LET r == Written(i)[1].resp
         IN /\ r.hasError /\ r.code = -32600
            /\ r.id = IF HasId(input[i]) THEN input[i].id ELSE SentinelId
      /\ task[i].calls = 0

(* C6 (as claimed): a request whose id is a string or a number, 0 and ""    *)
(* included, has every response written under that very id.                 *)
C6_IdEchoed ==
  \A i \in LineIds :
    (input[i].parse = "obj" /\ HasId(input[i])) =>
      \A k \in 1..NumWritten(i) : Written(i)[k].resp.id = input[i].id

(* C7 (as claimed): a valid envelope without an id never has a line written *)
(* for it, whatever its method.                                             *)
C7_NoIdNoResponse ==
  \A i \in LineIds :
    (ValidEnvelope(input[i]) /\ input[i].id.t = "undef") =>
      NumWritten(i) = 0

(* C7 (amended): a valid envelope without an id has no line written when    *)
(* its method is "initialized"; with any other method it has at most one    *)
(* response, written under the sentinel id "0", and has exactly that one    *)
(* once its handler has run to its end.                                     *)
C7_NoIdAnsweredUnderSentinel ==
  \A i \in LineIds :
    (ValidEnvelope(input[i]) /\ input[i].id.t = "undef") =>
      /\ NumWritten(i) <= 1
      /\ \A k \in 1..NumWritten(i) : Written(i)[k].resp.id = SentinelId
      /\ input[i].method.v = "initialized" => NumWritten(i) = 0
      /\ (input[i].method.v # "initialized" /\ task[i].pc = "done")
           => NumWritten(i) = 1

(* C7 witness: a tools/list request without an id was answered, and an      *)
(* "initialized" notification without an id was handled to its end.         *)
C7_Witness ==
  \E i, j \in LineIds :
    /\ HasMethod(input[i], "tools/list") /\ input[i].id.t = "undef"
    /\ NumWritten(i) = 1
    /\ HasMethod(input[j], "initialized") /\ input[j].id.t = "undef"
    /\ task[j].pc = "done"

(* The text a template literal gives for the tool name of line l. *)
NameText(l) ==
  IF l.params.name.t = "undef" THEN "undefined" ELSE l.params.name.v

UnknownTool(l) ==
  /\ HasMethod(l, "callTool")
  /\ l.params.t = "obj"
  /\ l.params.name # [t |-> "str", v |-> "cht_sh"]

(* C8: a callTool request with params whose name is not "cht_sh" (a missing *)
(* name included) gets exactly one error -32601 whose message names the     *)
(* requested tool, and the fetcher is not invoked.                          *)
C8_ToolNotFound ==
  \A i \in LineIds :
    UnknownTool(input[i]) =>
      /\ NumGets(i) = 0
      /\ task[i].pc # "fetch"
      /\ NumWritten(i) <= 1
      /\ task[i].pc = "done" => NumWritten(i) = 1
      /\ \A k \in 1..NumWritten(i) :
           LET r == Written(i)[k].resp
           IN /\ r.hasError /\ r.code = -32601
              /\ r.message = <<"Tool not found: ", NameText(input[i])>>

(* C8 witness: an unknown tool asked with a good query, and a request with  *)
(* no tool name, have both been answered.                                   *)
C8_Witness ==
  \E i, j \in LineIds :
    /\ UnknownTool(input[i]) /\ input[i].params.name.t = "str"
    /\ input[i].params.arguments.query = [t |-> "str", v |-> "map"]
    /\ NumWritten(i) = 1
    /\ UnknownTool(input[j]) /\ input[j].params.name.t = "undef"
    /\ NumWritten(j) = 1

KnownTool(l) ==
  /\ HasMethod(l, "callTool")
  /\ l.params.t = "obj"
  /\ l.params.name = [t |-> "str", v |-> "cht_sh"]

(* C9 (as claimed): a callTool request for "cht_sh" whose query is empty or *)
(* missing, or whose arguments object is absent, gets exactly one error     *)
(* with code -32602.                                                        *)
C9_MissingQueryInvalidParams ==
  \A i \in LineIds :
    (/\ KnownTool(input[i])
     /\ \/ input[i].params.arguments.t = "undef"
        \/ input[i].params.arguments.query.t = "undef"
        \/ input[i].params.arguments.query = [t |-> "str", v |-> ""]) =>
      /\ NumWritten(i) <= 1
      /\ task[i].pc = "done" => NumWritten(i) = 1
      /\ \A k \in 1..NumWritten(i) :
           Written(i)[k].resp.hasError /\ Written(i)[k].resp.code = -32602

(* A callTool line that passes every check before the fetch. *)
Validated(l) ==
  /\ KnownTool(l)
  /\ l.params.arguments.t = "obj"
  /\ l.params.arguments.query.t = "str"
  /\ l.params.arguments.query.v # ""

(* C10: the fetcher is invoked exactly once for each validated callTool     *)
(* line and never for any other line, also after a fetch has failed; the    *)
(* GETs never outnumber the validated lines.                                *)
C10_OneFetchPerValidatedCall ==
  /\ \A i \in LineIds :
       NumGets(i) = IF Validated(input[i]) THEN 1 ELSE 0
  /\ Len(gets) <= Cardinality({i \in LineIds : Validated(input[i])})

(* C10 witness: a validated callTool whose fetch failed has been answered,  *)
(* next to a callTool line rejected for its empty query.                    *)
C10_Witness ==
  \E i, j \in LineIds :
    /\ Validated(input[i])
    /\ task[i].outcome = "axiosError" /\ task[i].pc = "done"
    /\ NumGets(i) = 1
    /\ KnownTool(input[j])
    /\ input[j].params.arguments.query = [t |-> "str", v |-> ""]
    /\ NumGets(j) = 0

(* The options member of line l's arguments is absent. *)
OptionsAbsent(l) == ~l.params.arguments.hasOptions

(* C11 (as claimed): a validated callTool whose fetch succeeds with text T  *)
(* gets a single response, a result without error whose content is the one  *)
(* block {type: "text", text: T}, under the request's id; absent options    *)
(* reach the fetcher as the empty sequence.                                 *)
C11_SuccessWrapsText ==
  \A i \in LineIds :
    (Validated(input[i]) /\ task[i].outcome = "ok") =>
      /\ NumWritten(i) <= 1
      /\ task[i].pc = "done" => NumWritten(i) = 1
      /\ \A k \in 1..NumWritten(i) :
           LET r == Written(i)[k].resp
           IN /\ r.hasResult /\ ~r.hasError
              /\ r.result.content = <<[type |-> "text", text |-> "map docs"]>>
              /\ HasId(input[i]) => r.id = input[i].id
      /\ \A g \in 1..Len(gets) :
           (gets[g].line = i /\ OptionsAbsent(input[i]))
             => gets[g].options = <<>>

FetchFailed(i) == task[i].outcome \in {"axiosError", "otherError"}

(* C12 (as claimed): a validated callTool whose fetch fails gets a single   *)
(* response, an error -32000 (never -32603) carrying the failure's message  *)
(* under the request's id, and the failure does not end the process.        *)
C12_FailureAnswered ==
  /\ [](\A i \in LineIds :
          (Validated(input[i]) /\ FetchFailed(i)) =>
            /\ NumWritten(i) <= 1
            /\ task[i].pc = "done" => NumWritten(i) = 1
            /\ \A k \in 1..NumWritten(i) :
                 LET r == Written(i)[k].resp
                 IN /\ r.hasError /\ ~r.hasResult
                    /\ r.code = -32000
                    /\ r.message # <<>>
                    /\ r.message[Len(r.message)] = "Network Error"
                    /\ HasId(input[i]) => r.id = input[i].id)
  /\ [][(\E i \in LineIds : task[i].outcome = "none" /\ FetchFailed(i)')
          => running']_vars

KnownMethods == {"initialize", "initialized", "tools/list", "ping", "callTool"}

(* C13 (as claimed): a valid envelope whose method is none of the five      *)
(* method names, compared exactly, gets exactly one error -32601 whose      *)
(* message contains the method name, under the request's id.                *)
C13_MethodNotFound ==
  \A i \in LineIds :
    (ValidEnvelope(input[i]) /\ input[i].method.v \notin KnownMethods) =>
      /\ NumWritten(i) <= 1
      /\ task[i].pc = "done" => NumWritten(i) = 1
      /\ \A k \in 1..NumWritten(i) :
           LET r == Written(i)[k].resp
           IN /\ r.hasError /\ r.code = -32601
              /\ \E n \in 1..Len(r.message) : r.message[n] = input[i].method.v
              /\ HasId(input[i]) => r.id = input[i].id

(* C14 (as claimed): a valid tools/list request gets a single response, a   *)
(* result whose tools hold exactly one descriptor, named "cht_sh" with      *)
(* query as its only required input, under the request's id.                *)
C14_ToolsListed ==
  \A i \in LineIds :
    HasMethod(input[i], "tools/list") =>
      /\ NumWritten(i) <= 1
      /\ task[i].pc = "done" => NumWritten(i) = 1
      /\ \A k \in 1..NumWritten(i) :
           LET r == Written(i)[k].resp
           IN /\ r.hasResult /\ ~r.hasError
              /\ Len(r.result.tools) = 1
              /\ r.result.tools[1].name = "cht_sh"
              /\ r.result.tools[1].required = <<"query">>
              /\ HasId(input[i]) => r.id = input[i].id

(* C15: every valid initialize request gets exactly one response, a result *)
(* (never an error) with the fixed protocol version, the capabilities       *)
(* object and the server name and version, whatever its params and however  *)
(* many initialize requests came before.                                    *)
C15_InitializeAnswered ==
  \A i \in LineIds :
    HasMethod(input[i], "initialize") =>
      /\ NumWritten(i) <= 1
      /\ task[i].pc = "done" => NumWritten(i) = 1
      /\ \A k \in 1..NumWritten(i) :
           LET r == Written(i)[k].resp
           IN /\ r.hasResult /\ ~r.hasError
              /\ r.result.protocolVersion = "2024-03-26"
              /\ r.result.capabilities = {}
              /\ r.result.serverName = "CheatSheet"
              /\ r.result.serverVersion = "package.json version"

(* C15 witness: an initialize without params and a later initialize with    *)
(* params have both been answered.                                          *)
C15_Witness ==
  \E i, j \in LineIds :
    /\ i < j
    /\ HasMethod(input[i], "initialize") /\ input[i].params.t = "undef"
    /\ HasMethod(input[j], "initialize") /\ input[j].params.t = "obj"
    /\ NumWritten(i) = 1 /\ NumWritten(j) = 1

(* A response with its timestamp blanked. *)
WithoutTimestamp(r) == [r EXCEPT !.result.timestamp = 0]

(* C16: two identical ping requests get responses that agree in every field *)
(* (jsonrpc, id, result.status = "ok") except result.timestamp.             *)
C16_PingRepeatable ==
  \A i, j \in LineIds :
    (/\ i < j
     /\ HasMethod(input[i], "ping")
     /\ input[j] = input[i]
     /\ NumWritten(i) = 1 /\ NumWritten(j) = 1) =>
      LET a == Written(i)[1].resp
          b == Written(j)[1].resp
      IN /\ a.jsonrpc = "2.0" /\ b.jsonrpc = "2.0"
         /\ a.id = b.id
         /\ a.result.status = "ok" /\ b.result.status = "ok"
         /\ WithoutTimestamp(a) = WithoutTimestamp(b)

(* C16 witness: the same ping was answered twice, at different times.       *)
C16_Witness ==
  \E i, j \in LineIds :
    /\ i < j
    /\ HasMethod(input[i], "ping") /\ input[j] = input[i]
    /\ NumWritten(i) = 1 /\ NumWritten(j) = 1
    /\ Written(i)[1].resp.result.timestamp
         # Written(j)[1].resp.result.timestamp

(* C17: responses need not come in request order: while the fetches of two *)
(* callTool lines are pending the later one can settle first, and further   *)
(* lines can be read while a fetch is pending.                              *)
C17_LaterFetchMaySettleFirst ==
  \A i, j \in LineIds :
    (/\ i < j
     /\ task[i].pc = "fetch" /\ task[j].pc = "fetch"
     /\ running /\ mq = <<>>) =>
      /\ ENABLED FetchSettleLine(j)
      /\ Len(input) < MaxLines => ENABLED ReadLine

(* C17 witness: callTool line i was read before callTool line j, both were  *)
(* validated, and the response to j was written before the response to i.   *)
C17_Witness ==
  \E i, j \in LineIds :
    /\ i < j
    /\ Validated(input[i]) /\ Validated(input[j])
    /\ \E a, b \in 1..Len(out) :
         a < b /\ out[a].line = j /\ out[b].line = i

(* C18: with the input stream open and every fetch settling, every line     *)
(* other than a valid "initialized" notification ends up with exactly one   *)
(* response; a callTool whose fetch has not settled has no response and     *)
(* does not keep queued responses of other lines from being written.        *)
C18_EveryLineAnswered ==
  /\ \A i \in 1..MaxLines :
       (i <= Len(input) /\ ~HasMethod(input[i], "initialized"))
         ~> (NumWritten(i) = 1)
  /\ [](\A i \in LineIds :
          /\ NumWritten(i) <= 1
          /\ task[i].pc = "fetch" =>
               /\ NumWritten(i) = 0
               /\ mq # <<>> => ENABLED Resume)

(* C18 witness: a later line was answered while a callTool's fetch was      *)
(* pending, and the callTool was answered once its fetch had settled.       *)
C18_Witness ==
  \E i, j \in LineIds :
    /\ i < j
    /\ Validated(input[i]) /\ task[i].outcome # "none"
    /\ NumWritten(i) = 1 /\ NumWritten(j) = 1
    /\ \E a, b \in 1..Len(out) :
         a < b /\ out[a].line = j /\ out[b].line = i

(* C19 (as claimed): when the process has terminated on the close of its   *)
(* input, every callTool line read before has had its response written,     *)
(* also one whose fetch was pending at the close.                           *)
C19_CloseLosesNoResponse ==
  ~running =>
    \A i \in LineIds :
      HasMethod(input[i], "callTool") => NumWritten(i) = 1

(* What a server that has handled no line before writes for line l, given   *)
(* the clock reading and the outcome of its fetch.                          *)
FreshResponses(l, ts, outcome) ==
  LET s == LineHandler(l, ts)
  IN IF s.pc = "done" THEN s.written
     ELSE IF s.pc = "fetch" THEN <<CallToolSettled(l, outcome)>>
     ELSE ResumeWrites(s)

(* The responses written for line i, without the line numbers. *)
Responses(i) == [k \in 1..NumWritten(i) |-> Written(i)[k].resp]

(* C20: no error path ends the process or disables the dispatcher: the      *)
(* process stops only in a step that handles no line (the close of the      *)
(* input), a running server with an empty queue accepts the next line, and  *)
(* every line handled to its end got what a server with no prior lines      *)
(* writes for it.                                                           *)
C20_ErrorsNotFatal ==
  /\ [][(running /\ ~running')
          => (input' = input /\ out' = out /\ task' = task /\ mq = <<>>)]_vars
  /\ []((running /\ mq = <<>> /\ Len(input) < MaxLines) => ENABLED ReadLine)
  /\ [](\A i \in LineIds :
          task[i].pc = "done" =>
            \E ts \in Clock :
              Responses(i) = FreshResponses(input[i], ts, task[i].outcome))

(* C20 witness: after a line answered by the outer catch, a callTool whose  *)
(* fetch failed was answered with an error, and the server is running.      *)
C20_Witness ==
  \E i, j \in LineIds :
    /\ i < j
    /\ input[i].parse = "null" /\ NumWritten(i) = 1
    /\ FetchFailed(j) /\ task[j].pc = "done" /\ NumWritten(j) = 1
    /\ Written(j)[1].resp.hasError
    /\ running

(* C21 (as claimed): as long as no line has invoked the fetcher, responses  *)
(* are written in the order in which their lines were received.             *)
C21_NoFetchKeepsOrder ==
  gets = <<>> =>
    \A a, b \in 1..Len(out) : a < b => out[a].line < out[b].line

(* The id of line i is one that `||` replaces by the sentinel. *)
FalsyId(i) ==
  \/ input[i].id.t \in {"undef", "null"}
  \/ input[i].id = [t |-> "num", v |-> "0"]
  \/ input[i].id = [t |-> "str", v |-> ""]

(* C22: whatever the interleaving of callTool requests in flight, the       *)
(* response written for a line carries that line's id (or the sentinel that *)
(* stands for it) and that line's fetch outcome, and neither a settled      *)
(* outcome nor an issued GET is changed by lines handled later.             *)
C22_ResponseFromOwnLine ==
  /\ [](\A i \in LineIds :
          Validated(input[i]) =>
            \A k \in 1..NumWritten(i) :
              LET r == Written(i)[k].resp
              IN /\ task[i].outcome # "none"
                 /\ IF FalsyId(i) THEN r.id = SentinelId
                                  ELSE r.id = input[i].id
                 /\ task[i].outcome = "ok" =>
                      /\ r.hasResult
                      /\ r.result.content
                           = <<[type |-> "text", text |-> "map docs"]>>
                 /\ task[i].outcome = "axiosError" =>
                      /\ r.hasError
                      /\ r.message
                           = <<"Failed to fetch from cht.sh: ", "Network Error">>
                 /\ task[i].outcome = "otherError" =>
                      /\ r.hasError
                      /\ r.message = <<"Network Error">>)
  /\ [][/\ \A i \in LineIds :
             task[i].outcome # "none" =>
               /\ task'[i].outcome = task[i].outcome
               /\ task'[i].resp = task[i].resp
        /\ \A g \in 1..Len(gets) : gets'[g] = gets[g]]_vars

(* C22 witness: two callTool requests with different ids were in flight     *)
(* together, the later one failed and was answered first, the earlier one   *)
(* succeeded and was answered second.                                       *)
C22_Witness ==
  \E i, j \in LineIds :
    /\ i < j
    /\ Validated(input[i]) /\ Validated(input[j])
    /\ input[i].id # input[j].id
    /\ task[i].outcome = "ok" /\ task[j].outcome = "axiosError"
    /\ \E a, b \in 1..Len(out) :
         a < b /\ out[a].line = j /\ out[b].line = i

(* The responses written for line i with their timestamps blanked. *)
TimelessResponses(i) ==
  [k \in 1..NumWritten(i) |-> WithoutTimestamp(Written(i)[k].resp)]

(* C23: what is written for a line depends on the line and on its own fetch *)
(* outcome only (the timestamp aside): it is what a server that has seen no *)
(* line before writes, and two equal lines with equal outcomes get equal    *)
(* responses wherever they stand in the input.                              *)
C23_Stateless ==
  \A i \in LineIds :
    task[i].pc = "done" =>
      /\ \E ts \in Clock :
           Responses(i) = FreshResponses(input[i], ts, task[i].outcome)
      /\ \A j \in LineIds :
           (/\ input[j] = input[i]
            /\ task[j].pc = "done"
            /\ task[j].outcome = task[i].outcome)
             => TimelessResponses(j) = TimelessResponses(i)

(* C23 witness: tools/list was answered with its result although no         *)
(* initialize or initialized line was ever received, after another line.    *)
C23_Witness ==
  \E i, j \in LineIds :
    /\ i < j
    /\ HasMethod(input[j], "tools/list")
    /\ task[j].pc = "done" /\ NumWritten(j) = 1
    /\ Written(j)[1].resp.hasResult
    /\ \A k \in LineIds :
         /\ ~HasMethod(input[k], "initialize")
         /\ ~HasMethod(input[k], "initialized")

(* A callTool request whose params member is absent. *)
ParamsAbsent(l) == HasMethod(l, "callTool") /\ l.params.t = "undef"

(* C24 (as claimed): a callTool request without params gets exactly one     *)
(* error with message "Missing parameters" and the internal-error code      *)
(* -32603, and the fetcher is not invoked.                                  *)
C24_MissingParamsInternalError ==
  \A i \in LineIds :
    ParamsAbsent(input[i]) =>
      /\ NumGets(i) = 0
      /\ NumWritten(i) <= 1
      /\ task[i].pc = "done" => NumWritten(i) = 1
      /\ \A k \in 1..NumWritten(i) :
           LET r == Written(i)[k].resp
           IN /\ r.hasError /\ r.code = -32603
              /\ r.message = <<"Missing parameters">>

(* C24 (amended): a callTool request without params gets exactly one error  *)
(* with message "Missing parameters" and the server-defined code -32000,    *)
(* the code that fetch failures get too; the fetcher is not invoked.        *)
C24_MissingParamsServerError ==
  \A i \in LineIds :
    ParamsAbsent(input[i]) =>
      /\ NumGets(i) = 0
      /\ task[i].pc # "fetch"
      /\ NumWritten(i) <= 1
      /\ task[i].pc = "done" => NumWritten(i) = 1
      /\ \A k \in 1..NumWritten(i) :
           LET r == Written(i)[k].resp
           IN /\ r.hasError /\ ~r.hasResult
              /\ r.code = -32000
              /\ r.message = <<"Missing parameters">>
              /\ \A j \in LineIds :
                   (FetchFailed(j) /\ NumWritten(j) = 1)
                     => Written(j)[1].resp.code = r.code

(* C24 witness: a callTool without params and a callTool whose fetch failed *)
(* have both been answered.                                                 *)
C24_Witness ==
  \E i, j \in LineIds :
    /\ ParamsAbsent(input[i]) /\ NumWritten(i) = 1
    /\ FetchFailed(j) /\ NumWritten(j) = 1

(* The query of line l is empty or missing, or its arguments are missing. *)
NoQuery(l) ==
  \/ l.params.arguments.t = "undef"
  \/ l.params.arguments.query.t = "undef"
  \/ l.params.arguments.query = [t |-> "str", v |-> ""]

(* C25: the checks of callTool run in the order params, tool name, query    *)
(* and only the first failure is reported: an unknown tool without a usable *)
(* query is answered -32601 "Tool not found", never -32602.                 *)
C25_FirstFailingCheckReported ==
  \A i \in LineIds :
    (UnknownTool(input[i]) /\ NoQuery(input[i])) =>
      /\ task[i].pc = "done" => NumWritten(i) = 1
      /\ \A k \in 1..NumWritten(i) :
           LET r == Written(i)[k].resp
           IN /\ r.hasError
              /\ r.code = -32601 /\ r.code # -32602
              /\ r.message[1] = "Tool not found: "

(* C25 witness: an unknown tool with an empty query and an unknown tool     *)
(* without arguments have both been answered.                               *)
C25_Witness ==
  \E i, j \in LineIds :
    /\ UnknownTool(input[i])
    /\ input[i].params.arguments.query = [t |-> "str", v |-> ""]
    /\ NumWritten(i) = 1
    /\ UnknownTool(input[j]) /\ input[j].params.arguments.t = "undef"
    /\ NumWritten(j) = 1

(* C26 (as claimed): a line that parses as JSON but is no valid envelope,   *)
(* the values null, number, string and array included, gets exactly one     *)
(* error -32600, under the sentinel id when it carries no id, and never an  *)
(* error -32603.                                                            *)
C26_InvalidJsonValueInvalidRequest ==
  \A i \in LineIds :
    (/\ input[i].parse \in {"null", "prim", "array", "obj"}
     /\ ~ValidEnvelope(input[i])) =>
      /\ NumWritten(i) = 1
      /\ LET r == Written(i)[1].resp
         IN /\ r.hasError
            /\ r.code = -32600 /\ r.code # -32603
            /\ ~HasId(input[i]) => r.id = SentinelId

(* A non-empty language is given to the call g. *)
LanguageGiven(g) == g.language.t = "str" /\ g.language.v # ""

(* C27: the requested URL is the base endpoint, then language and "/" only  *)
(* when a non-empty language is given, then the query, then "?" and the     *)
(* options separated by "&" only when there are options; every token is     *)
(* inserted as it was given and in the given order.                         *)
C27_UrlConcatenation ==
  \A c \in 1..Len(gets) :
    LET g == gets[c]
        u == g.url
        off == IF LanguageGiven(g) THEN 3 ELSE 1
        n == Len(g.options)
    IN /\ u[1] = "https://cht.sh/"
       /\ LanguageGiven(g) => (u[2] = g.language.v /\ u[3] = "/")
       /\ Len(u) = off + 1 + (IF n > 0 THEN 2 * n ELSE 0)
       /\ u[off + 1] = g.query.v
       /\ n > 0 => u[off + 2] = "?"
       /\ \A k \in 1..n : u[off + 1 + 2 * k] = g.options[k]
       /\ \A k \in 2..n : u[off + 2 * k] = "&"

(* C27 witness: one GET with a language and two different options, one GET  *)
(* with an empty language, a query holding URL metacharacters and no        *)
(* options.                                                                 *)
C27_Witness ==
  \E c, d \in 1..Len(gets) :
    /\ LanguageGiven(gets[c])
    /\ Len(gets[c].options) = 2
    /\ gets[c].options[1] # gets[c].options[2]
    /\ gets[d].language = [t |-> "str", v |-> ""]
    /\ gets[d].query.v = "a b?c&d"
    /\ gets[d].options = <<>>

====
